---- MODULE Spec2Model ----
(***************************************************************************)
(* Model of the polling / state-reconciliation engine of the COSMIC applet *)
(* (src/src/app.rs, src/src/config.rs).                                    *)
(*                                                                         *)
(* The application model (AppModel) is driven by update(message).  After   *)
(* every update the runtime asks subscription() for the wanted streams and *)
(* keeps, drops or starts stream instances by their identity.  Stream      *)
(* instances run concurrently with the message handler and hand their      *)
(* messages to the runtime's event queue (inbox), from which update        *)
(* receives them in FIFO order.  Intents of the view layer and external    *)
(* configuration changes arrive at any time.                               *)
(***************************************************************************)
EXTENDS Integers, Sequences, FiniteSets, TLC

VARIABLES
    phase,          \* "start" before AppModel::init has run, "running" after
    config_handler, \* AppModel.config_handler is Some: cosmic_config::Config::new succeeded
    persisted,      \* what cosmic_config holds for the handler: <<>> or <<Config>>
    config,         \* AppModel.config
    popup,          \* AppModel.popup: <<>> or <<id>>
    pr_count,       \* AppModel.pr_count: <<>> or <<n>>
    fetch_error,    \* AppModel.fetch_error: <<>> or <<message>>
    show_settings,  \* AppModel.show_settings
    pat_input,      \* AppModel.pat_input
    gh_status,      \* AppModel.gh_status: <<>> or <<Result>>
    gh_check_id,    \* AppModel.gh_check_id
    pollers,        \* live instances of the PR poller stream
    probes,         \* live instances of the gh status checker stream
    inbox,          \* messages handed to the runtime, not yet given to update
    last_outcome,   \* history: the PRCountFetched outcome update received last: <<>> or <<Result>>
    last_ok,        \* history: the count of the Ok outcome update received last: <<>> or <<n>>
    call            \* a function applied on its own: <<>>, or <<arguments and result>>

vars == <<phase, config_handler, persisted, config, popup, pr_count, fetch_error, show_settings,
          pat_input, gh_status, gh_check_id, pollers, probes, inbox,
          last_outcome, last_ok, call>>

----------------------------------------------------------------------------
(* Bounds of the model.                                                    *)

\* Messages the runtime's event queue holds at most.
MaxInbox == 1
\* gh_check_id is a u64 counter; arming intents are cut off at this value.
MaxCheckId == 2
\* PR counts the services answer with: 0..MaxCount.
MaxCount == 1
\* Popup ids handed out by Id::unique(): 1..MaxPopupId.
MaxPopupId == 1

----------------------------------------------------------------------------
(* Option and Result values.                                               *)

None == <<>>
Some(v) == <<v>>

\* A piece of text (program output, an error message) is a sequence of tokens:
\* a token is a run of whitespace (" ", "\n"), one character, or a run of other
\* text that the program never looks into.  "" is <<>>, concatenation is \o.
Whitespace == {" ", "\n"}

\* Result<u32, String>: Ok(count) or Err(message)
Ok(n) == [ok |-> TRUE, count |-> n, text |-> <<>>]
Err(m) == [ok |-> FALSE, count |-> 0, text |-> m]

\* Result<String, String>: Ok(username) or Err(message)
OkS(s) == [ok |-> TRUE, count |-> 0, text |-> s]
ErrS(s) == [ok |-> FALSE, count |-> 0, text |-> s]

----------------------------------------------------------------------------
(* config.rs                                                               *)

AuthMethod == {"GhCli", "Pat"}

Config(a, p, i) == [auth_method |-> a, github_pat |-> p, poll_interval_secs |-> i]

ConfigDefault == Config("GhCli", "", 60)

(* app.rs constants                                                        *)
POLL_VALUES == <<30, 60, 120, 300, 600, 1800>>

----------------------------------------------------------------------------
(* Text helpers of the standard library, as the code uses them.            *)

RECURSIVE TrimStart(_)
TrimStart(s) ==
    IF s # <<>> /\ Head(s) \in Whitespace THEN TrimStart(Tail(s)) ELSE s

RECURSIVE TrimEnd(_)
TrimEnd(s) ==
    IF s # <<>> /\ s[Len(s)] \in Whitespace
    THEN TrimEnd(SubSeq(s, 1, Len(s) - 1))
    ELSE s

\* str::trim
Trim(s) == TrimEnd(TrimStart(s))

DigitChars == <<"0", "1", "2", "3", "4", "5", "6", "7", "8", "9">>

IsDigit(c) == \E i \in 1..10 : DigitChars[i] = c

DigitVal(c) == (CHOOSE i \in 1..10 : DigitChars[i] = c) - 1

\* The decimal digits of n, most significant first.
RECURSIVE Decimal(_)
Decimal(n) ==
    IF n < 10 THEN <<DigitChars[n + 1]>>
    ELSE Decimal(n \div 10) \o <<DigitChars[(n % 10) + 1]>>

\* u32::MAX, in decimal digits.
U32MaxDigits == <<"4", "2", "9", "4", "9", "6", "7", "2", "9", "5">>

RECURSIVE StripZeros(_)
StripZeros(s) ==
    IF Len(s) > 1 /\ Head(s) = "0" THEN StripZeros(Tail(s)) ELSE s

\* a > b for two runs of digits of the same length
RECURSIVE DigitsGreater(_, _)
DigitsGreater(a, b) ==
    IF a = <<>> THEN FALSE
    ELSE IF DigitVal(Head(a)) # DigitVal(Head(b))
         THEN DigitVal(Head(a)) > DigitVal(Head(b))
         ELSE DigitsGreater(Tail(a), Tail(b))

\* Whether a run of digits names a number above u32::MAX.
OverflowsU32(digits) ==
    LET d == StripZeros(digits)
    IN  \/ Len(d) > Len(U32MaxDigits)
        \/ Len(d) = Len(U32MaxDigits) /\ DigitsGreater(d, U32MaxDigits)

\* The value of a run of digits.
RECURSIVE DigitsValue(_, _)
DigitsValue(s, acc) ==
    IF s = <<>> THEN acc ELSE DigitsValue(Tail(s), acc * 10 + DigitVal(Head(s)))

\* str::parse::<u32>, with the Display text of its ParseIntError.
ParseU32(s) ==
    IF s = <<>> THEN Err(<<"cannot parse integer from empty string">>)
    ELSE LET digits == IF Head(s) = "+" THEN Tail(s) ELSE s
         IN  IF digits = <<>> \/ \E i \in 1..Len(digits) : ~IsDigit(digits[i])
             THEN Err(<<"invalid digit found in string">>)
             ELSE IF OverflowsU32(digits)
                  THEN Err(<<"number too large to fit in target type">>)
                  ELSE Ok(DigitsValue(digits, 0))

\* A u64, given by its four 16-bit words:
\* n = ((w3 * 2^16 + w2) * 2^16 + w1) * 2^16 + w0.
Word == 65536
U64(w3, w2, w1, w0) == [w3 |-> w3, w2 |-> w2, w1 |-> w1, w0 |-> w0]
U64Of(n) == U64(0, 0, n \div Word, n % Word)

\* `n as u32`: the low 32 bits of a u64.
AsU32(n) == n.w1 * Word + n.w0

----------------------------------------------------------------------------
(* What the outside world answers.                                         *)

\* Display text of the io::Error of a command that could not be spawned.
NativeError == <<"No such file or directory (os error 2)">>

\* The outcome of tokio::process::Command::output(): the spawn failed, or the
\* process ran and left an exit status, stdout and stderr.
SpawnFailed == [spawned |-> FALSE, success |-> FALSE, stdout |-> <<>>,
                stderr |-> <<>>, json |-> <<>>]
Exited(succ, out, errtext) ==
    [spawned |-> TRUE, success |-> succ, stdout |-> out, stderr |-> errtext,
     json |-> <<>>]

\* A JSON value, as far as the code looks at it.
JNumber(n) == [t |-> "u64", n |-> n, s |-> <<>>]
JString(s) == [t |-> "string", n |-> U64(0, 0, 0, 0), s |-> s]
JNull == [t |-> "null", n |-> U64(0, 0, 0, 0), s |-> <<>>]

\* A JSON object with the two members the code indexes (JNull: member absent).
JObject(total, msg) == [total_count |-> total, message |-> msg]

\* curl exited with success and wrote `body`; json is what serde_json::from_str
\* makes of it: <<>> when the body is no JSON, <<document>> otherwise.
CurlBody(body, doc) ==
    [spawned |-> TRUE, success |-> TRUE, stdout |-> body, stderr |-> <<>>,
     json |-> doc]

\* Answers of `gh api search/issues ... --jq .total_count`.
GhApiOutputs ==
    {SpawnFailed,
     Exited(FALSE, <<>>, <<" ", "rate limited", "\n">>),
     Exited(TRUE, <<>>, <<>>)}
    \cup {Exited(TRUE, Decimal(n) \o <<"\n">>, <<>>) : n \in 0..MaxCount}

\* Answers of curl to the search request.
CurlOutputs ==
    {CurlBody(<<"{\"message\":\"Bad credentials\"}">>,
              Some(JObject(JNull, JString(<<"Bad credentials">>))))}
    \cup {CurlBody(<<"{\"total_count\":">> \o Decimal(n) \o <<"}">>,
                   Some(JObject(JNumber(U64Of(n)), JNull))) : n \in 0..MaxCount}

\* JSON numbers that Value::as_u64 does not give: a negative integer, a float.
JNegative == [t |-> "negative", n |-> U64(0, 0, 0, 0), s |-> <<>>]
JFloat == [t |-> "float", n |-> U64(0, 0, 0, 0), s |-> <<>>]

\* u64 values below and above the u32 range, word by word.
TotalCounts ==
    {U64(w3, w2, w1, w0) : w3 \in {0, 1}, w2 \in {0, 1}, w1 \in {0, 1},
                           w0 \in {0, 1, Word - 1}}

\* What curl can answer to fetch_via_pat: no process, a failed exit, a body
\* that is no JSON, and JSON documents by what their members total_count and
\* message hold (a document that is no object, or lacks a member, gives Null
\* for it).
CurlAnswers ==
    {SpawnFailed,
     Exited(FALSE, <<>>, <<>>),
     Exited(FALSE, <<>>, <<"curl: (6) Could not resolve host: api.github.com", "\n">>),
     Exited(FALSE, <<"{\"total_count\":1}">>, <<>>),
     CurlBody(<<>>, None),
     CurlBody(<<"<html>">>, None)}
    \cup {CurlBody(<<"json">>, Some(JObject(total, msg))) :
             total \in {JNull, JString(<<"5">>), JNegative, JFloat}
                       \cup {JNumber(n) : n \in TotalCounts},
             msg \in {JNull, JString(<<"Bad credentials">>), JString(<<>>),
                      JNumber(U64Of(1))}}

----------------------------------------------------------------------------
(* The fetch strategies (app.rs, fetch_pr_count and below).                *)

\* fetch_via_gh_cli, given what the gh command answers.
FetchViaGhCli(out) ==
    IF ~out.spawned THEN Err(<<"gh not found: ">> \o NativeError)
    ELSE IF ~out.success THEN Err(Trim(out.stderr))
    ELSE ParseU32(Trim(out.stdout))

\* serde_json: Value::as_u64 and Value::as_str
AsU64(v) == IF v.t = "u64" THEN Some(v.n) ELSE None
AsStr(v) == IF v.t = "string" THEN Some(v.s) ELSE None

\* fetch_via_pat, given what curl answers.
FetchViaPat(pat, out) ==
    IF ~out.spawned THEN Err(<<"curl not found: ">> \o NativeError)
    ELSE IF ~out.success THEN Err(<<"Request failed: ">> \o out.stderr)
    ELSE IF out.json = None THEN Err(<<"JSON parse error: ">> \o <<"expected value">>)
    ELSE LET value == out.json[1]
             total == AsU64(value.total_count)
             msg   == AsStr(value.message)
         IN  IF total # None THEN Ok(AsU32(total[1]))
             ELSE IF msg # None THEN Err(<<"API error: ">> \o msg[1])
             ELSE Err(<<"total_count not found in response">>)

NoPatMessage == <<"No PAT configured. Open Settings to add one.">>

\* A variant of FetchPrCount that does not look for an empty credential.
FetchPrCount_NoEmptyCheck(auth_method, pat, world) ==
    IF auth_method = "GhCli"
    THEN [result |-> FetchViaGhCli(world.gh), called |-> "gh"]
    ELSE [result |-> FetchViaPat(pat, world.curl), called |-> "curl"]

\* fetch_pr_count: the result, and the command it ran to get it ("none": it ran
\* no command).  world.gh and world.curl are what each command answers when run.
FetchPrCount(auth_method, pat, world) ==
    IF auth_method = "GhCli"
    THEN [result |-> FetchViaGhCli(world.gh), called |-> "gh"]
    ELSE IF pat = ""
         THEN [result |-> Err(NoPatMessage), called |-> "none"]
         ELSE [result |-> FetchViaPat(pat, world.curl), called |-> "curl"]

\* str::lines: the text cut at its line ends.
RECURSIVE Lines(_, _)
Lines(s, line) ==
    IF s = <<>> THEN (IF line = <<>> THEN <<>> ELSE <<line>>)
    ELSE IF Head(s) = "\n" THEN <<line>> \o Lines(Tail(s), <<>>)
    ELSE Lines(Tail(s), Append(line, Head(s)))

\* str::contains for a marker that is one token of the text.
Contains(line, marker) == \E i \in 1..Len(line) : line[i] = marker

\* line.find("account "): the place of the first "account" that a blank follows,
\* 0 when there is none.
FindAccount(line) ==
    LET hits == {i \in 1..(Len(line) - 1) : line[i] = "account" /\ line[i + 1] = " "}
    IN  IF hits = {} THEN 0 ELSE CHOOSE i \in hits : \A j \in hits : i <= j

\* rest.split_whitespace().next().unwrap_or("unknown")
FirstWord(rest) ==
    LET t == TrimStart(rest) IN IF t = <<>> THEN "unknown" ELSE Head(t)

\* The first line, from line k on, that names the account: <<username>>, or <<>>.
RECURSIVE ScanLines(_, _)
ScanLines(lines, k) ==
    IF k > Len(lines) THEN None
    ELSE LET line == lines[k]
             pos  == FindAccount(line)
         IN  IF Contains(line, "Logged in to") /\ Contains(line, "account") /\ pos > 0
             THEN Some(FirstWord(SubSeq(line, pos + 2, Len(line))))
             ELSE ScanLines(lines, k + 1)

\* A variant of CheckGhStatusFn that looks at the exit status before it looks
\* for the line naming the account.
CheckGhStatusFn_ExitFirst(out) ==
    IF ~out.spawned THEN ErrS(<<"gh not found or not executable">>)
    ELSE IF ~out.success THEN ErrS(<<"Not logged in. Run: gh auth login">>)
    ELSE LET text  == out.stdout \o out.stderr
             found == ScanLines(Lines(text, <<>>), 1)
         IN  IF found # None THEN OkS(<<found[1]>>)
             ELSE OkS(<<"Connected">>)

\* check_gh_status, given what `gh auth status` answers.
CheckGhStatusFn(out) ==
    IF ~out.spawned THEN ErrS(<<"gh not found or not executable">>)
    ELSE LET text  == out.stdout \o out.stderr
             found == ScanLines(Lines(text, <<>>), 1)
         IN  IF found # None THEN OkS(<<found[1]>>)
             ELSE IF ~out.success THEN ErrS(<<"Not logged in. Run: gh auth login">>)
             ELSE OkS(<<"Connected">>)

\* Answers of `gh auth status`.
GhStatusOutputs ==
    {SpawnFailed,
     Exited(TRUE, <<>>,
            <<"github.com", "\n", " ", "Logged in to", " ", "github.com", " ",
              "account", " ", "octocat", " ", "(oauth_token)", "\n">>),
     Exited(FALSE, <<>>, <<"You are not logged into any GitHub hosts.", "\n">>),
     Exited(TRUE, <<>>, <<>>)}

\* Lines `gh auth status` may print, each without its line end: the line of a
\* logged-in account, lines with one marker only, with "account" ending the
\* line or followed by blanks only, and with the markers the other way round.
GhStatusLines ==
    {<<" ", "Logged in to", " ", "github.com", " ", "account", " ", "octocat",
       " ", "(oauth_token)">>,
     <<"Logged in to", " ", "ghe.io", " ", "account", " ", " ", "hubot">>,
     <<"Logged in to", " ", "github.com", " ", "as", " ", "octocat">>,
     <<" ", "-", " ", "Active", " ", "account", " ", "true">>,
     <<"Logged in to", " ", "github.com", " ", "account">>,
     <<"Logged in to", " ", "github.com", " ", "account", " ">>,
     <<"account", " ", "monalisa", " ", "Logged in to", " ", "github.com">>,
     <<"You are not logged into any GitHub hosts.">>,
     <<>>}

\* Texts of no, one and two such lines.
GhStatusTexts ==
    {<<>>}
    \cup {l \o <<"\n">> : l \in GhStatusLines}
    \cup {l1 \o <<"\n">> \o l2 \o <<"\n">> : l1 \in GhStatusLines, l2 \in GhStatusLines}

\* What `gh auth status` can answer to check_gh_status: no process, or either
\* exit status with such a text on stderr, or with its first line on stdout.
GhStatusAnswers ==
    {SpawnFailed}
    \cup {Exited(succ, <<>>, text) : succ \in BOOLEAN, text \in GhStatusTexts}
    \cup {Exited(succ, l \o <<"\n">>, text) :
             succ \in BOOLEAN, l \in GhStatusLines, text \in {<<>>, <<"\n">>}}

----------------------------------------------------------------------------
(* Inputs of the model.                                                    *)

\* Credentials: none, and one token.
Pats == {"", "ghp_a"}

\* poll_interval_secs values a stored or externally replaced configuration holds.
StoredIntervals == {0, 60}

\* Configurations that cosmic_config delivers (at start, or through the watcher).
Configs == {Config(a, p, i) : a \in AuthMethod, p \in Pats, i \in StoredIntervals}

\* Indices the SetPollInterval intent carries: two valid ones, one past the end.
PollIndices == {0, 1, Len(POLL_VALUES)}

\* Popup ids: those Id::unique() hands out, and one of another window.
PopupIds == 1..(MaxPopupId + 1)

\* What the commands answer at one moment: every answer of each command, with
\* some answer of the other.
Worlds ==
    {[gh |-> g, curl |-> CHOOSE c \in CurlOutputs : TRUE] : g \in GhApiOutputs}
    \cup {[gh |-> CHOOSE g \in GhApiOutputs : TRUE, curl |-> c] : c \in CurlOutputs}

----------------------------------------------------------------------------
(* subscription(): the streams the application wants, by identity, and the *)
(* runtime keeping the live stream instances in step with them.            *)

\* A variant of PollId that leaves the interval out of the subscription id.
PollId_WithoutInterval(cfg) == <<cfg.auth_method, cfg.github_pat>>

\* The id of the PR poller subscription.
PollId(cfg) == <<cfg.auth_method, cfg.github_pat, cfg.poll_interval_secs>>

\* The PR poller recipe: its id and the values its closure captures.
PollRecipe(cfg) ==
    [id |-> PollId(cfg), auth_method |-> cfg.auth_method,
     pat |-> cfg.github_pat, interval |-> cfg.poll_interval_secs]

\* A variant of ProbeRecipes that does not look at show_settings.
ProbeRecipes_IgnoreSettings(show, cfg, check_id) ==
    IF cfg.auth_method = "GhCli" THEN {[id |-> check_id]} ELSE {}

\* The gh status checker recipes: one while settings is open with GhCli selected.
ProbeRecipes(show, cfg, check_id) ==
    IF show /\ cfg.auth_method = "GhCli" THEN {[id |-> check_id]} ELSE {}

\* A new instance of the poller stream, at the top of its loop.
StartPoller(r) ==
    [id |-> r.id, auth_method |-> r.auth_method, pat |-> r.pat,
     interval |-> r.interval, pc |-> "fetch", result |-> None, called |-> "none"]

\* A new instance of the checker stream.
StartProbe(r) == [id |-> r.id, pc |-> "check", result |-> None]

\* A variant of TrackPollers that lets a running instance run on whatever the
\* wanted id has become.
TrackPollers_KeepsRunning(alive, cfg) ==
    IF alive = {} THEN {StartPoller(PollRecipe(cfg))} ELSE alive

\* The runtime after an update: instances whose id is no longer wanted are
\* dropped, wanted ids without an instance get a new one, the others run on.
\* Dropping an instance ends its stream; what it had already handed to the
\* runtime stays queued (inbox) and is still given to update.
TrackPollers(alive, cfg) ==
    LET wanted == {PollRecipe(cfg)}
    IN  {p \in alive : \E r \in wanted : r.id = p.id}
        \cup {StartPoller(r) : r \in {w \in wanted : \A p \in alive : p.id # w.id}}

TrackProbes(alive, show, cfg, check_id) ==
    LET wanted == ProbeRecipes(show, cfg, check_id)
    IN  {q \in alive : \E r \in wanted : r.id = q.id}
        \cup {StartProbe(r) : r \in {w \in wanted : \A q \in alive : q.id # w.id}}

\* The subscriptions are recomputed from the state the update leaves.
Track ==
    /\ pollers' = TrackPollers(pollers, config')
    /\ probes' = TrackProbes(probes, show_settings', config', gh_check_id')

----------------------------------------------------------------------------
(* AppModel::default and AppModel::init                                    *)

Init ==
    /\ phase = "start"
    /\ config_handler \in BOOLEAN
    /\ persisted \in IF config_handler THEN {None} \cup {Some(c) : c \in Configs}
                                      ELSE {None}
    /\ config = ConfigDefault
    /\ popup = None
    /\ pr_count = None
    /\ fetch_error = None
    /\ show_settings = FALSE
    /\ pat_input = ""
    /\ gh_status = None
    /\ gh_check_id = 0
    /\ pollers = {}
    /\ probes = {}
    /\ inbox = <<>>
    /\ last_outcome = None
    /\ last_ok = None
    /\ call = <<>>

\* The initial states in which init obtains a configuration handler.
InitWithHandler == Init /\ config_handler

\* A variant of LoadConfig without the migration of a zero interval.
LoadConfig_NoMigration(stored) ==
    IF stored = None THEN ConfigDefault ELSE stored[1]

\* The configuration init adopts from what is stored.
LoadConfig(stored) ==
    LET loaded == IF stored = None THEN ConfigDefault ELSE stored[1]
    IN  IF loaded.poll_interval_secs = 0
        THEN [loaded EXCEPT !.poll_interval_secs = 60]
        ELSE loaded

AppInit ==
    /\ phase = "start"
    /\ phase' = "running"
    /\ config' = LoadConfig(IF config_handler THEN persisted ELSE None)
    /\ pat_input' = config'.github_pat
    /\ UNCHANGED <<config_handler, call, persisted, popup, pr_count, fetch_error, show_settings,
                   gh_status, gh_check_id, inbox, last_outcome, last_ok>>
    /\ Track

----------------------------------------------------------------------------
(* The PR poller stream: loop { fetch; send; sleep }                       *)

PollFetch(p) ==
    /\ p.pc = "fetch"
    /\ \E world \in Worlds :
          LET f == FetchPrCount(p.auth_method, p.pat, world)
          IN  pollers' = (pollers \ {p}) \cup
                  {[p EXCEPT !.pc = "send", !.result = Some(f.result),
                             !.called = f.called]}
    /\ UNCHANGED <<phase, config_handler, call, persisted, config, popup, pr_count, fetch_error,
                   show_settings, pat_input, gh_status, gh_check_id, probes,
                   inbox, last_outcome, last_ok>>

\* A variant of PollSend whose loop ends after sending an Err.
PollSend_StopOnErr(p, tagged) ==
    /\ p.pc = "send"
    /\ Len(inbox) < MaxInbox
    /\ inbox' = Append(inbox, [kind |-> "PRCountFetched", result |-> p.result[1],
                               src |-> IF tagged THEN p.id ELSE <<>>])
    /\ pollers' = (pollers \ {p}) \cup
           {[p EXCEPT !.pc = IF p.result[1].ok THEN "sleep" ELSE "done",
                      !.result = None, !.called = "none"]}
    /\ UNCHANGED <<phase, config_handler, call, persisted, config, popup, pr_count, fetch_error,
                   show_settings, pat_input, gh_status, gh_check_id, probes,
                   last_outcome, last_ok>>

\* A variant of PollSend whose loop fetches again without sleeping.
PollSend_SkipSleep(p, tagged) ==
    /\ p.pc = "send"
    /\ Len(inbox) < MaxInbox
    /\ inbox' = Append(inbox, [kind |-> "PRCountFetched", result |-> p.result[1],
                               src |-> IF tagged THEN p.id ELSE <<>>])
    /\ pollers' = (pollers \ {p}) \cup
           {[p EXCEPT !.pc = "fetch", !.result = None, !.called = "none"]}
    /\ UNCHANGED <<phase, config_handler, call, persisted, config, popup, pr_count,
                   fetch_error, show_settings, pat_input, gh_status, gh_check_id,
                   probes, last_outcome, last_ok>>

\* The message carries, for the record only, the id of the instance that sent
\* it (src), when `tagged`; the program's message has no such field.
PollSend(p, tagged) ==
    /\ p.pc = "send"
    /\ Len(inbox) < MaxInbox
    /\ inbox' = Append(inbox, [kind |-> "PRCountFetched", result |-> p.result[1],
                               src |-> IF tagged THEN p.id ELSE <<>>])
    /\ pollers' = (pollers \ {p}) \cup
           {[p EXCEPT !.pc = "sleep", !.result = None, !.called = "none"]}
    /\ UNCHANGED <<phase, config_handler, call, persisted, config, popup, pr_count, fetch_error,
                   show_settings, pat_input, gh_status, gh_check_id, probes,
                   last_outcome, last_ok>>

PollWake(p) ==
    /\ p.pc = "sleep"
    /\ pollers' = (pollers \ {p}) \cup {[p EXCEPT !.pc = "fetch"]}
    /\ UNCHANGED <<phase, config_handler, call, persisted, config, popup, pr_count, fetch_error,
                   show_settings, pat_input, gh_status, gh_check_id, probes,
                   inbox, last_outcome, last_ok>>

(* The gh status checker stream: check; send; pending forever              *)

ProbeCheck(q) ==
    /\ q.pc = "check"
    /\ \E out \in GhStatusOutputs :
          probes' = (probes \ {q}) \cup
              {[q EXCEPT !.pc = "send", !.result = Some(CheckGhStatusFn(out))]}
    /\ UNCHANGED <<phase, config_handler, call, persisted, config, popup, pr_count, fetch_error,
                   show_settings, pat_input, gh_status, gh_check_id, pollers,
                   inbox, last_outcome, last_ok>>

\* A variant of ProbeSend whose stream starts over instead of pending forever.
ProbeSend_ThenCheckAgain(q) ==
    /\ q.pc = "send"
    /\ Len(inbox) < MaxInbox
    /\ inbox' = Append(inbox, [kind |-> "GhStatusFetched", result |-> q.result[1],
                               src |-> <<q.id>>])
    /\ probes' = (probes \ {q}) \cup {[q EXCEPT !.pc = "check", !.result = None]}
    /\ UNCHANGED <<phase, config_handler, call, persisted, config, popup, pr_count,
                   fetch_error, show_settings, pat_input, gh_status, gh_check_id,
                   pollers, last_outcome, last_ok>>

ProbeSend(q) ==
    /\ q.pc = "send"
    /\ Len(inbox) < MaxInbox
    /\ inbox' = Append(inbox, [kind |-> "GhStatusFetched", result |-> q.result[1],
                               src |-> <<q.id>>])
    /\ probes' = (probes \ {q}) \cup {[q EXCEPT !.pc = "pending", !.result = None]}
    /\ UNCHANGED <<phase, config_handler, call, persisted, config, popup, pr_count, fetch_error,
                   show_settings, pat_input, gh_status, gh_check_id, pollers,
                   last_outcome, last_ok>>

----------------------------------------------------------------------------
(* AppModel::update, one action per message, each followed by the runtime  *)
(* recomputing the subscriptions.                                          *)

\* if let Some(handler) = &self.config_handler { write_entry(handler) }: with a
\* handler the stored configuration becomes cfg, without one nothing is written.
WriteEntry(cfg) ==
    IF config_handler THEN persisted' = Some(cfg) ELSE UNCHANGED persisted

\* A variant of PRCountFetched that forgets the count when a fetch fails.
PRCountFetched_ErrClearsCount(result) ==
    /\ IF result.ok
       THEN /\ pr_count' = Some(result.count)
            /\ fetch_error' = None
       ELSE /\ fetch_error' = Some(result.text)
            /\ pr_count' = None
    /\ UNCHANGED <<persisted, config, popup, show_settings, pat_input,
                   gh_status, gh_check_id>>

\* Message::PRCountFetched(result)
PRCountFetched(result) ==
    /\ IF result.ok
       THEN /\ pr_count' = Some(result.count)
            /\ fetch_error' = None
       ELSE /\ fetch_error' = Some(result.text)
            /\ UNCHANGED pr_count
    /\ UNCHANGED <<persisted, config, popup, show_settings, pat_input,
                   gh_status, gh_check_id>>

\* Message::GhStatusFetched(result)
GhStatusFetched(result) ==
    /\ gh_status' = Some(result)
    /\ UNCHANGED <<persisted, config, popup, pr_count, fetch_error,
                   show_settings, pat_input, gh_check_id>>

\* The runtime gives update the oldest message the streams produced.  The
\* history notes the outcome received last, and the count of the last Ok.
Deliver ==
    /\ phase = "running"
    /\ inbox # <<>>
    /\ LET m == Head(inbox)
       IN  IF m.kind = "PRCountFetched"
           THEN /\ PRCountFetched(m.result)
                /\ last_outcome' = Some(m.result)
                /\ last_ok' = IF m.result.ok THEN Some(m.result.count) ELSE last_ok
           ELSE /\ GhStatusFetched(m.result)
                /\ UNCHANGED <<last_outcome, last_ok>>
    /\ inbox' = Tail(inbox)
    /\ UNCHANGED <<phase, config_handler, call>>
    /\ Track

\* Message::OpenGitHub: spawns xdg-open, touches nothing of the model.
OpenGitHub ==
    /\ phase = "running"
    /\ UNCHANGED <<phase, config_handler, call, persisted, config, popup, pr_count, fetch_error,
                   show_settings, pat_input, gh_status, gh_check_id, inbox,
                   last_outcome, last_ok>>
    /\ Track

\* A variant of UpdateConfig that adopts the credential into the edit buffer
\* whether or not settings is open.
UpdateConfig_AlwaysAdoptPat(cfg) ==
    /\ phase = "running"
    /\ persisted' = IF config_handler THEN Some(cfg) ELSE persisted
    /\ pat_input' = cfg.github_pat
    /\ config' = cfg
    /\ UNCHANGED <<phase, config_handler, call, popup, pr_count, fetch_error, show_settings,
                   gh_status, gh_check_id, inbox, last_outcome, last_ok>>
    /\ Track

\* A variant of UpdateConfig that starts the status over, as if a replaced
\* configuration made what was fetched before void.
UpdateConfig_ResetsStatus(cfg) ==
    /\ phase = "running"
    /\ persisted' = IF config_handler THEN Some(cfg) ELSE persisted
    /\ pat_input' = IF ~show_settings THEN cfg.github_pat ELSE pat_input
    /\ config' = cfg
    /\ pr_count' = None
    /\ fetch_error' = None
    /\ UNCHANGED <<phase, config_handler, call, popup, show_settings, gh_status,
                   gh_check_id, inbox, last_outcome, last_ok>>
    /\ Track

\* Message::UpdateConfig(cfg), from the configuration watcher: the stored
\* configuration has become cfg, and the watcher hands it over (persisted is
\* the store as the handler reaches it: without a handler it stays absent).
UpdateConfig(cfg) ==
    /\ phase = "running"
    /\ persisted' = IF config_handler THEN Some(cfg) ELSE persisted
    /\ pat_input' = IF ~show_settings THEN cfg.github_pat ELSE pat_input
    /\ config' = cfg
    /\ UNCHANGED <<phase, config_handler, call, popup, pr_count, fetch_error, show_settings,
                   gh_status, gh_check_id, inbox, last_outcome, last_ok>>
    /\ Track

\* Message::TogglePopup
TogglePopup ==
    /\ phase = "running"
    /\ IF popup # None
       THEN /\ popup' = None
            /\ show_settings' = FALSE
       ELSE /\ \E new_id \in 1..MaxPopupId : popup' = Some(new_id)
            /\ UNCHANGED show_settings
    /\ UNCHANGED <<phase, config_handler, call, persisted, config, pr_count, fetch_error, pat_input,
                   gh_status, gh_check_id, inbox, last_outcome, last_ok>>
    /\ Track

\* Message::PopupClosed(id)
PopupClosed(id) ==
    /\ phase = "running"
    /\ IF popup = Some(id)
       THEN /\ popup' = None
            /\ show_settings' = FALSE
       ELSE UNCHANGED <<popup, show_settings>>
    /\ UNCHANGED <<phase, config_handler, call, persisted, config, pr_count, fetch_error, pat_input,
                   gh_status, gh_check_id, inbox, last_outcome, last_ok>>
    /\ Track

\* Message::OpenSettings
OpenSettings ==
    /\ phase = "running"
    /\ gh_check_id < MaxCheckId
    /\ show_settings' = TRUE
    /\ gh_status' = None
    /\ gh_check_id' = gh_check_id + 1
    /\ UNCHANGED <<phase, config_handler, call, persisted, config, popup, pr_count, fetch_error,
                   pat_input, inbox, last_outcome, last_ok>>
    /\ Track

\* Message::CloseSettings
CloseSettings ==
    /\ phase = "running"
    /\ show_settings' = FALSE
    /\ UNCHANGED <<phase, config_handler, call, persisted, config, popup, pr_count, fetch_error,
                   pat_input, gh_status, gh_check_id, inbox, last_outcome, last_ok>>
    /\ Track

\* A variant of SetAuthMethod that also forgets the fetch status, as if the
\* count belonged to the method it was fetched with.
SetAuthMethod_ResetsStatus(method) ==
    /\ phase = "running"
    /\ gh_check_id < MaxCheckId
    /\ config' = [config EXCEPT !.auth_method = method]
    /\ gh_status' = None
    /\ gh_check_id' = gh_check_id + 1
    /\ pr_count' = None
    /\ fetch_error' = None
    /\ WriteEntry(config')
    /\ UNCHANGED <<phase, config_handler, call, popup, show_settings, pat_input, inbox,
                   last_outcome, last_ok>>
    /\ Track

\* Message::SetAuthMethod(method)
SetAuthMethod(method) ==
    /\ phase = "running"
    /\ gh_check_id < MaxCheckId
    /\ config' = [config EXCEPT !.auth_method = method]
    /\ gh_status' = None
    /\ gh_check_id' = gh_check_id + 1
    /\ WriteEntry(config')
    /\ UNCHANGED <<phase, config_handler, call, popup, pr_count, fetch_error, show_settings, pat_input,
                   inbox, last_outcome, last_ok>>
    /\ Track

\* A variant of SetPatInput that writes the typed text straight into the
\* configuration.
SetPatInput_AlsoCommits(input) ==
    /\ phase = "running"
    /\ pat_input' = input
    /\ config' = [config EXCEPT !.github_pat = input]
    /\ UNCHANGED <<phase, config_handler, call, persisted, popup, pr_count, fetch_error,
                   show_settings, gh_status, gh_check_id, inbox, last_outcome,
                   last_ok>>
    /\ Track

\* Message::SetPatInput(input)
SetPatInput(input) ==
    /\ phase = "running"
    /\ pat_input' = input
    /\ UNCHANGED <<phase, config_handler, call, persisted, config, popup, pr_count, fetch_error,
                   show_settings, gh_status, gh_check_id, inbox, last_outcome,
                   last_ok>>
    /\ Track

\* Message::SavePat
SavePat ==
    /\ phase = "running"
    /\ config' = [config EXCEPT !.github_pat = pat_input]
    /\ WriteEntry(config')
    /\ UNCHANGED <<phase, config_handler, call, popup, pr_count, fetch_error, show_settings, pat_input,
                   gh_status, gh_check_id, inbox, last_outcome, last_ok>>
    /\ Track

\* A variant of SetPollInterval that takes the last value for an index past
\* the end of POLL_VALUES.
SetPollInterval_ClampIndex(idx) ==
    /\ phase = "running"
    /\ config' = [config EXCEPT !.poll_interval_secs =
                     IF idx < Len(POLL_VALUES) THEN POLL_VALUES[idx + 1]
                                               ELSE POLL_VALUES[Len(POLL_VALUES)]]
    /\ WriteEntry(config')
    /\ UNCHANGED <<phase, config_handler, call, popup, pr_count, fetch_error,
                   show_settings, pat_input, gh_status, gh_check_id, inbox,
                   last_outcome, last_ok>>
    /\ Track

\* Message::SetPollInterval(idx); idx counts from 0, as in POLL_VALUES.get(idx)
SetPollInterval(idx) ==
    /\ phase = "running"
    /\ IF idx < Len(POLL_VALUES)
       THEN /\ config' = [config EXCEPT !.poll_interval_secs = POLL_VALUES[idx + 1]]
            /\ WriteEntry(config')
       ELSE UNCHANGED <<config, persisted>>
    /\ UNCHANGED <<phase, config_handler, call, popup, pr_count, fetch_error, show_settings, pat_input,
                   gh_status, gh_check_id, inbox, last_outcome, last_ok>>
    /\ Track

\* A variant of CheckGhStatus that forgets the status but keeps the counter.
CheckGhStatus_NoIncrement ==
    /\ phase = "running"
    /\ gh_check_id < MaxCheckId
    /\ gh_status' = None
    /\ UNCHANGED <<phase, config_handler, call, persisted, config, popup, pr_count,
                   fetch_error, show_settings, pat_input, gh_check_id, inbox,
                   last_outcome, last_ok>>
    /\ Track

\* Message::CheckGhStatus
CheckGhStatus ==
    /\ phase = "running"
    /\ gh_check_id < MaxCheckId
    /\ gh_status' = None
    /\ gh_check_id' = gh_check_id + 1
    /\ UNCHANGED <<phase, config_handler, call, persisted, config, popup, pr_count, fetch_error,
                   show_settings, pat_input, inbox, last_outcome, last_ok>>
    /\ Track

----------------------------------------------------------------------------

Next ==
    \/ AppInit
    \/ \E p \in pollers : PollFetch(p)
    \/ \E p \in pollers : PollSend(p, TRUE)
    \/ \E p \in pollers : PollWake(p)
    \/ \E q \in probes : ProbeCheck(q)
    \/ \E q \in probes : ProbeSend(q)
    \/ Deliver
    \/ OpenGitHub
    \/ \E cfg \in Configs : UpdateConfig(cfg)
    \/ TogglePopup
    \/ \E id \in PopupIds : PopupClosed(id)
    \/ OpenSettings
    \/ CloseSettings
    \/ \E method \in AuthMethod : SetAuthMethod(method)
    \/ \E input \in Pats : SetPatInput(input)
    \/ SavePat
    \/ \E idx \in PollIndices : SetPollInterval(idx)
    \/ CheckGhStatus

Spec == Init /\ [][Next]_vars

\* Next interleaves every stream step with every message.  The specifications
\* below each take the steps of one stream with the messages that bear on it.

\* The configurations the watcher delivers in the specifications of the poller
\* stream: those with an interval the loop sleeps for.  The interval 0 reaches
\* the application in SpecAux and SpecConfig.
PollConfigs == {cfg \in Configs : cfg.poll_interval_secs # 0}

\* The poller stream and the messages that change what it polls with.
PollMessages ==
    \/ AppInit
    \/ Deliver
    \/ \E idx \in PollIndices : SetPollInterval(idx)
    \/ \E method \in AuthMethod : SetAuthMethod(method)
    \/ \E input \in Pats : SetPatInput(input)
    \/ SavePat
    \/ \E cfg \in PollConfigs : UpdateConfig(cfg)

NextPoll ==
    \/ \E p \in pollers : PollFetch(p)
    \/ \E p \in pollers : PollSend(p, FALSE)
    \/ \E p \in pollers : PollWake(p)
    \/ PollMessages

SpecPoll == InitWithHandler /\ [][NextPoll]_vars

\* The same, each outcome recorded with the instance that produced it.
NextPollSrc ==
    \/ \E p \in pollers : PollFetch(p)
    \/ \E p \in pollers : PollSend(p, TRUE)
    \/ \E p \in pollers : PollWake(p)
    \/ PollMessages

SpecPollSrc == InitWithHandler /\ [][NextPollSrc]_vars

\* The gh status checker and the messages that arm and disarm it.
NextAux ==
    \/ AppInit
    \/ \E q \in probes : ProbeCheck(q)
    \/ \E q \in probes : ProbeSend(q)
    \/ Deliver
    \/ \E cfg \in Configs : UpdateConfig(cfg)
    \/ TogglePopup
    \/ \E id \in PopupIds : PopupClosed(id)
    \/ OpenSettings
    \/ CloseSettings
    \/ \E method \in AuthMethod : SetAuthMethod(method)
    \/ CheckGhStatus
    \/ \E input \in Pats : SetPatInput(input)
    \/ SavePat
    \/ \E idx \in PollIndices : SetPollInterval(idx)
    \/ OpenGitHub

SpecAux == InitWithHandler /\ [][NextAux]_vars


\* The poller stream alone with the messages that restart it, each step of the
\* loop and each delivery taken eventually once it stays possible: the executor
\* runs every ready task, a sleep ends, and the runtime hands on what it queued.
NextLoop ==
    \/ AppInit
    \/ \E p \in pollers : PollFetch(p)
    \/ \E p \in pollers : PollSend(p, FALSE)
    \/ \E p \in pollers : PollWake(p)
    \/ Deliver
    \/ \E cfg \in PollConfigs : UpdateConfig(cfg)
    \/ \E idx \in PollIndices : SetPollInterval(idx)

FairSpecLoop ==
    /\ InitWithHandler
    /\ [][NextLoop]_vars
    /\ WF_vars(AppInit)
    /\ WF_vars(\E p \in pollers : PollFetch(p))
    /\ WF_vars(\E p \in pollers : PollSend(p, FALSE))
    /\ WF_vars(\E p \in pollers : PollWake(p))
    /\ WF_vars(Deliver)

\* Both streams with every message, for the claims about what the messages do
\* to the fetch status: a first start (a handler, nothing stored), the view
\* sending each message with one input, and arming the checker at most once.
InitFresh == Init /\ config_handler /\ persisted = None

NextStatus ==
    \/ AppInit
    \/ \E p \in pollers : PollFetch(p)
    \/ \E p \in pollers : PollSend(p, FALSE)
    \/ \E p \in pollers : PollWake(p)
    \/ \E q \in probes : ProbeCheck(q)
    \/ \E q \in probes : ProbeSend(q)
    \/ Deliver
    \/ UpdateConfig(ConfigDefault)
    \/ TogglePopup
    \/ \E id \in PopupIds : PopupClosed(id)
    \/ gh_check_id = 0 /\ OpenSettings
    \/ CloseSettings
    \/ gh_check_id = 0 /\ \E method \in AuthMethod : SetAuthMethod(method)
    \/ gh_check_id = 0 /\ CheckGhStatus
    \/ SetPatInput("")
    \/ SavePat
    \/ \E idx \in {1, Len(POLL_VALUES)} : SetPollInterval(idx)
    \/ OpenGitHub

SpecStatus == InitFresh /\ [][NextStatus]_vars

\* fetch_via_pat applied on its own to whatever curl may answer.
CallFetchViaPat ==
    /\ call = <<>>
    /\ \E out \in CurlAnswers :
          call' = <<[fn |-> "fetch_via_pat", out |-> out,
                     result |-> FetchViaPat("ghp_a", out)]>>
    /\ UNCHANGED <<phase, config_handler, persisted, config, popup, pr_count,
                   fetch_error, show_settings, pat_input, gh_status, gh_check_id,
                   pollers, probes, inbox, last_outcome, last_ok>>

SpecFetchViaPat == InitFresh /\ [][CallFetchViaPat]_vars

\* check_gh_status applied on its own to whatever `gh auth status` may answer.
CallCheckGhStatus ==
    /\ call = <<>>
    /\ \E out \in GhStatusAnswers :
          call' = <<[fn |-> "check_gh_status", out |-> out,
                     result |-> CheckGhStatusFn(out)]>>
    /\ UNCHANGED <<phase, config_handler, persisted, config, popup, pr_count,
                   fetch_error, show_settings, pat_input, gh_status, gh_check_id,
                   pollers, probes, inbox, last_outcome, last_ok>>

SpecCheckGhStatus == InitFresh /\ [][CallCheckGhStatus]_vars

\* The messages that write the configuration, with or without a handler to
\* write it through, and no stream taking a step.
NextConfig ==
    \/ AppInit
    \/ \E idx \in PollIndices : SetPollInterval(idx)
    \/ \E method \in AuthMethod : SetAuthMethod(method)
    \/ \E input \in Pats : SetPatInput(input)
    \/ SavePat
    \/ \E cfg \in Configs : UpdateConfig(cfg)

SpecConfig == Init /\ [][NextConfig]_vars

\* The poller stream with the messages that change its identity, each outcome
\* recorded with the instance that produced it, on a first start.  The commands
\* answer with a count of 0 or fail (gh cannot be spawned, curl's request is
\* refused); the auth method is switched at most once.  Each step of the loop
\* and each delivery is taken eventually once it stays possible: the executor
\* runs every ready task, a sleep ends, and the runtime hands on what it queued.
FewAnswers ==
    \A r \in pollers' :
        r.result # None =>
            \/ r.result[1] = Ok(0)
            \/ ~r.result[1].ok /\ r.called \in {"none", "curl"}
            \/ r.result[1] = FetchViaGhCli(SpawnFailed)

FetchStep == (\E p \in pollers : PollFetch(p)) /\ FewAnswers

NextRestart ==
    \/ AppInit
    \/ FetchStep
    \/ \E p \in pollers : PollSend(p, TRUE)
    \/ \E p \in pollers : PollWake(p)
    \/ Deliver
    \/ gh_check_id = 0 /\ SetAuthMethod("Pat")
    \/ SetPatInput("ghp_a")
    \/ SavePat
    \/ \E idx \in {0, 1} : SetPollInterval(idx)
    \/ \E cfg \in {ConfigDefault, Config("Pat", "ghp_a", 60)} : UpdateConfig(cfg)

FairSpecRestart ==
    /\ InitFresh
    /\ [][NextRestart]_vars
    /\ WF_vars(AppInit)
    /\ WF_vars(FetchStep)
    /\ WF_vars(\E p \in pollers : PollSend(p, TRUE))
    /\ WF_vars(\E p \in pollers : PollWake(p))
    /\ WF_vars(Deliver)

----------------------------------------------------------------------------
(* Properties.                                                             *)

\* The captured values of a poller instance, as an identity.
IdentityOf(p) == <<p.auth_method, p.pat, p.interval>>

\* C1: after any sequence of delivered PRCountFetched outcomes, fetch_error is
\* set iff the outcome delivered last was an Err, and then holds its message;
\* pr_count is the count of the Ok delivered last, absent if there was none.
C1_StatusFollowsOutcomes ==
    /\ fetch_error = IF last_outcome # None /\ ~last_outcome[1].ok
                     THEN Some(last_outcome[1].text)
                     ELSE None
    /\ pr_count = last_ok

\* An Err was delivered after an Ok: the count is kept beside the error.
C1_Witness ==
    /\ last_outcome # None
    /\ ~last_outcome[1].ok
    /\ last_ok # None
    /\ pr_count = last_ok
    /\ fetch_error # None

\* C2 (as claimed): delivering a PRCountFetched whose producing instance has an
\* identity other than the current one leaves pr_count and fetch_error unchanged.
C2_StaleOutcomeDiscarded ==
    [][(/\ inbox # <<>>
        /\ Head(inbox).kind = "PRCountFetched"
        /\ Head(inbox).src # PollId(config)
        /\ inbox' = Tail(inbox))
       => UNCHANGED <<pr_count, fetch_error>>]_vars

\* C3 (as claimed): delivering a GhStatusFetched of a probe armed under an older
\* gh_check_id leaves gh_status unchanged.
C3_StaleProbeDiscarded ==
    [][(/\ inbox # <<>>
        /\ Head(inbox).kind = "GhStatusFetched"
        /\ Head(inbox).src # <<gh_check_id>>
        /\ inbox' = Tail(inbox))
       => UNCHANGED gh_status]_vars

\* C4 (as claimed): poll_interval_secs is never 0, and no poller instance sleeps
\* for 0 seconds.
C4_IntervalNeverZero ==
    /\ config.poll_interval_secs # 0
    /\ \A p \in pollers : p.interval # 0

\* C5: init adopts the stored configuration with a zero interval replaced by 60
\* and nothing else changed, the default when nothing is stored, and the first
\* poller starts with the adopted values.
C5_InitNormalizesInterval ==
    [][(phase = "start" /\ phase' = "running")
       => /\ config' =
               IF persisted = None THEN Config("GhCli", "", 60)
               ELSE IF persisted[1].poll_interval_secs = 0
                    THEN Config(persisted[1].auth_method, persisted[1].github_pat, 60)
                    ELSE persisted[1]
          /\ pollers = {}
          /\ Cardinality(pollers') = 1
          /\ \A p \in pollers' :
                /\ p.pc = "fetch"
                /\ p.interval # 0
                /\ IdentityOf(p) = <<config'.auth_method, config'.github_pat,
                                     config'.poll_interval_secs>>]_vars

\* Just after init, with a stored interval of 0: the adopted interval is 60.
C5_Witness ==
    /\ phase = "running"
    /\ persisted # None
    /\ persisted[1].poll_interval_secs = 0
    /\ config = Config(persisted[1].auth_method, persisted[1].github_pat, 60)
    /\ \E p \in pollers : p.pc = "fetch" /\ p.interval = 60

\* C6: once running there is exactly one poller instance, and it polls with the
\* current auth_method, github_pat and poll_interval_secs.
C6_OnePollerWithCurrentIdentity ==
    phase = "running" =>
        /\ Cardinality(pollers) = 1
        /\ \A p \in pollers :
              IdentityOf(p) = <<config.auth_method, config.github_pat,
                                config.poll_interval_secs>>

\* SetPollInterval chose 30 seconds (no stored configuration holds 30), the
\* instance with that interval has fetched, and an outcome of an earlier
\* instance was delivered.
C6_Witness ==
    /\ config.poll_interval_secs = 30
    /\ last_outcome # None
    /\ \E p \in pollers : p.interval = 30 /\ p.pc = "send"

\* C7 (as claimed): a fetch with Pat and an empty credential runs no command and
\* gives Err("No credential configured. Configure one in settings."); with a
\* credential it runs curl; with GhCli it runs gh, whatever the credential.
C7_EmptyPatFailsFast_SpecText ==
    \A p \in pollers :
        p.pc = "send" =>
            /\ (p.auth_method = "Pat" /\ p.pat = "") =>
                   /\ p.called = "none"
                   /\ p.result =
                        Some(Err(<<"No credential configured. Configure one in settings.">>))
            /\ (p.auth_method = "Pat" /\ p.pat # "") => p.called = "curl"
            /\ p.auth_method = "GhCli" => p.called = "gh"

\* C7 (amended): the same, with the message the code gives:
\* "No PAT configured. Open Settings to add one."
C7_EmptyPatFailsFast ==
    \A p \in pollers :
        p.pc = "send" =>
            /\ (p.auth_method = "Pat" /\ p.pat = "") =>
                   /\ p.called = "none"
                   /\ p.result =
                        Some(Err(<<"No PAT configured. Open Settings to add one.">>))
            /\ (p.auth_method = "Pat" /\ p.pat # "") => p.called = "curl"
            /\ p.auth_method = "GhCli" => p.called = "gh"

\* A fetch with Pat and no credential has completed.
C7_Witness ==
    \E p \in pollers : p.pc = "send" /\ p.auth_method = "Pat" /\ p.pat = ""

\* C8: a poller instance is always at one of the three steps of its loop;
\* whenever one holds an Err to send, a poller instance is later at the top of
\* the loop again (the same one after its send and sleep, or its replacement);
\* and whenever one is at the top of the loop, a fetch is later completed.
C8_ErrDoesNotEndLoop ==
    /\ \A p \in pollers : p.pc \in {"fetch", "send", "sleep"}
    /\ [][\A p \in pollers' : p.pc \in {"fetch", "send", "sleep"}]_vars
    /\ (\E p \in pollers : p.pc = "send" /\ ~p.result[1].ok)
           ~> (\E p \in pollers : p.pc = "fetch")
    /\ (\E p \in pollers : p.pc = "fetch")
           ~> (\E p \in pollers : p.pc = "send")

\* An Err was delivered, and the same loop has fetched again since.
C8_Witness ==
    /\ last_outcome # None
    /\ ~last_outcome[1].ok
    /\ \E p \in pollers : p.pc = "send" /\ ~p.result[1].ok

\* C9: UpdateConfig(cfg) makes cfg the configuration, and sets pat_input to
\* cfg.github_pat when settings is closed, leaving it alone when settings is open.
C9_UpdateConfigReplaces ==
    [][\A cfg \in Configs :
          UpdateConfig(cfg) =>
              /\ config' = cfg
              /\ pat_input' = IF show_settings THEN pat_input ELSE cfg.github_pat]_vars

\* Settings is open and the watcher has delivered a configuration (interval 0
\* comes only from it) whose credential is not the one being edited.
C9_Witness ==
    /\ show_settings
    /\ config.poll_interval_secs = 0
    /\ persisted = Some(config)
    /\ pat_input # config.github_pat

\* C10: at most one probe instance is live, and only while settings is open
\* and GhCli is the auth method.
C10_ProbeOnlyWhileSettingsOpen ==
    /\ Cardinality(probes) <= 1
    /\ probes # {} => (show_settings /\ config.auth_method = "GhCli")

\* A probe has run and reported, and settings was closed afterwards: no probe
\* is left.
C10_Witness ==
    /\ gh_status # None
    /\ ~show_settings
    /\ probes = {}

\* The messages that arm the gh status checker.
ArmingStep ==
    \/ OpenSettings
    \/ \E method \in AuthMethod : SetAuthMethod(method)
    \/ CheckGhStatus

\* C11: each of OpenSettings, SetAuthMethod and CheckGhStatus raises
\* gh_check_id by exactly one and sets gh_status to None; every other step
\* leaves gh_check_id as it is, so gh_check_id never decreases.
C11_ArmingIncrements ==
    [][/\ OpenSettings => (gh_check_id' = gh_check_id + 1 /\ gh_status' = None)
       /\ \A method \in AuthMethod :
             SetAuthMethod(method) =>
                 (gh_check_id' = gh_check_id + 1 /\ gh_status' = None)
       /\ CheckGhStatus => (gh_check_id' = gh_check_id + 1 /\ gh_status' = None)
       /\ ~ArmingStep => gh_check_id' = gh_check_id
       /\ gh_check_id' >= gh_check_id]_vars

\* The checker has been armed more than once and the status is unknown.
C11_Witness == gh_check_id >= 2 /\ gh_status = None /\ show_settings

\* C12: a live instance of the gh status checker only moves forward through
\* check, send, pending: it checks once, sends at most one GhStatusFetched,
\* the result of that check, and once pending stays pending for as long as it
\* lives.  (An instance present before and after a step under the same id is
\* the same instance: the runtime restarts a stream only under a new id or
\* after a step in which it was not wanted.)
C12_ProbeOneShot ==
    [][/\ \A q \in probes : \A r \in probes' :
             r.id = q.id =>
                 /\ q.pc = "check" => (r = q \/ (r.pc = "send" /\ r.result # None))
                 /\ q.pc = "send" => (r = q \/ r.pc = "pending")
                 /\ q.pc = "pending" => r = q
       /\ Len(inbox') > Len(inbox) =>
             \E q \in probes :
                 /\ q.pc = "send"
                 /\ inbox' = Append(inbox, [kind |-> "GhStatusFetched",
                                            result |-> q.result[1],
                                            src |-> <<q.id>>])
                 /\ \E r \in probes' : r.id = q.id /\ r.pc = "pending"]_vars

\* An instance has sent its one message, update has received it, and the
\* instance is still alive, pending.
C12_Witness ==
    /\ \E q \in probes : q.pc = "pending" /\ q.id = gh_check_id
    /\ gh_status # None
    /\ inbox = <<>>

\* The step appends to the inbox the PRCountFetched message carrying result.
EmitsOutcome(result) ==
    /\ Len(inbox') = Len(inbox) + 1
    /\ SubSeq(inbox', 1, Len(inbox)) = inbox
    /\ inbox'[Len(inbox')].kind = "PRCountFetched"
    /\ inbox'[Len(inbox')].result = result

\* C13: a live instance of the PR poller only moves fetch, send, sleep, fetch,
\* ...: a fetch is followed by the emission of its outcome, the emission by
\* the sleep, and only the end of the sleep by the next fetch; every outcome
\* emitted is the outcome of the one fetch before it.
C13_PollLoopSequential ==
    [][/\ \A p \in pollers : \A r \in pollers' :
             r.id = p.id =>
                 /\ p.pc = "fetch" => (r = p \/ (r.pc = "send" /\ r.result # None))
                 /\ p.pc = "send" =>
                       (r = p \/ (r.pc = "sleep" /\ EmitsOutcome(p.result[1])))
                 /\ p.pc = "sleep" => (r = p \/ r.pc = "fetch")
       /\ Len(inbox') > Len(inbox) =>
             \E p \in pollers :
                 /\ p.pc = "send"
                 /\ EmitsOutcome(p.result[1])
                 /\ \E r \in pollers' : r.id = p.id /\ r.pc = "sleep"]_vars

\* An instance has fetched again after update received its earlier outcome.
C13_Witness ==
    /\ \E p \in pollers : p.pc = "send" /\ p.id = PollId(config)
    /\ last_outcome # None

\* C14 as the specification words it: SetPollInterval(idx) with idx in 0..5
\* sets poll_interval_secs to the idx-th of 30, 60, 120, 300, 600, 1800 and
\* has the new configuration persisted, auth_method and github_pat as they
\* were; any other idx leaves the configuration and what is persisted alone.
C14_SetPollInterval_SpecText ==
    [][\A idx \in PollIndices :
          SetPollInterval(idx) =>
              IF idx \in 0..5
              THEN /\ config' = [config EXCEPT !.poll_interval_secs =
                                    <<30, 60, 120, 300, 600, 1800>>[idx + 1]]
                   /\ persisted' = Some(config')
              ELSE UNCHANGED <<config, persisted>>]_vars

\* C14: SetPollInterval(idx) with idx in 0..5 sets poll_interval_secs to the
\* idx-th of 30, 60, 120, 300, 600, 1800, auth_method and github_pat as they
\* were, and has the new configuration persisted when a configuration handler
\* exists (without one nothing is persisted); any other idx leaves the
\* configuration and what is persisted alone.
C14_SetPollInterval ==
    [][\A idx \in PollIndices :
          SetPollInterval(idx) =>
              IF idx \in 0..5
              THEN /\ config' = [config EXCEPT !.poll_interval_secs =
                                    <<30, 60, 120, 300, 600, 1800>>[idx + 1]]
                   /\ persisted' = IF config_handler THEN Some(config')
                                                     ELSE persisted
                   /\ POLL_VALUES = <<30, 60, 120, 300, 600, 1800>>
              ELSE UNCHANGED <<config, persisted>>]_vars

\* An interval only SetPollInterval supplies has been set and persisted
\* beside a credential and an auth method that are not the defaults.
C14_Witness ==
    /\ config.poll_interval_secs = 30
    /\ persisted = Some(config)
    /\ config.github_pat # ""
    /\ config.auth_method = "Pat"

\* C15: SetPatInput(text) changes pat_input and nothing else (configuration,
\* pr_count, fetch_error, gh_status, gh_check_id and the streams stay as they
\* are); SavePat makes github_pat the value of pat_input; and no other message
\* of the view changes github_pat: beside SavePat only init and the
\* configuration watcher's UpdateConfig do.
C15_PatInputTransient ==
    [][/\ \A input \in Pats :
             SetPatInput(input) =>
                 /\ pat_input' = input
                 /\ UNCHANGED <<config, persisted, pr_count, fetch_error, gh_status,
                                gh_check_id, show_settings, popup, pollers, probes,
                                inbox>>
       /\ SavePat =>
             /\ config' = [config EXCEPT !.github_pat = pat_input]
             /\ pat_input' = pat_input
       /\ config'.github_pat # config.github_pat =>
             \/ SavePat
             \/ \E cfg \in Configs : UpdateConfig(cfg)
             \/ AppInit]_vars

\* Text has been typed into the buffer and not committed: the configuration,
\* stored and in use, still holds the empty credential.
C15_Witness ==
    /\ show_settings
    /\ pat_input = "ghp_a"
    /\ config.github_pat = ""
    /\ persisted = Some(config)

\* update receives the message at the head of the inbox, of the given kind.
Delivers(kind) ==
    /\ inbox # <<>>
    /\ Head(inbox).kind = kind
    /\ inbox' = Tail(inbox)

\* C16: a step in which pr_count or fetch_error changes is one in which update
\* receives PRCountFetched, and is a step of none of the twelve other
\* messages: each of those leaves both as they are.
C16_StatusOnlyByPRCountFetched ==
    [][(pr_count' # pr_count \/ fetch_error' # fetch_error) =>
          /\ Delivers("PRCountFetched")
          /\ ~(\/ \E cfg \in Configs : UpdateConfig(cfg)
               \/ TogglePopup
               \/ \E id \in PopupIds : PopupClosed(id)
               \/ OpenSettings
               \/ CloseSettings
               \/ \E method \in AuthMethod : SetAuthMethod(method)
               \/ \E input \in Pats : SetPatInput(input)
               \/ SavePat
               \/ \E idx \in PollIndices : SetPollInterval(idx)
               \/ CheckGhStatus
               \/ Delivers("GhStatusFetched")
               \/ OpenGitHub)]_vars

\* A count and an error are both on display while the popup and settings are
\* open and the checker's answer has been received: the messages of the view
\* have acted on a status that is not the initial one.
C16_Witness ==
    /\ pr_count # None
    /\ fetch_error # None
    /\ show_settings
    /\ popup # None
    /\ gh_status # None

\* The result is Ok of the u64 v: the count is v itself.
IsOkOf(result, v) ==
    /\ result.ok
    /\ v.w3 = 0
    /\ v.w2 = 0
    /\ result.count = v.w1 * Word + v.w0

\* C17: whatever curl answers once it ran, fetch_via_pat gives: for a failed
\* exit Err("Request failed: " + stderr); else for a body that is no JSON an
\* Err beginning "JSON parse error: "; else for a numeric total_count (a
\* count: a non-negative integer) Ok(total_count); else for a string message
\* m Err("API error: " + m); else Err("total_count not found in response").
C17_PatFetchClassification ==
    (call # <<>> /\ call[1].fn = "fetch_via_pat" /\ call[1].out.spawned) =>
        LET out == call[1].out
            result == call[1].result
        IN  IF ~out.success
            THEN result = Err(<<"Request failed: ">> \o out.stderr)
            ELSE IF out.json = None
            THEN ~result.ok /\ Head(result.text) = "JSON parse error: "
            ELSE IF out.json[1].total_count.t = "u64"
            THEN IsOkOf(result, out.json[1].total_count.n)
            ELSE IF out.json[1].message.t = "string"
            THEN result = Err(<<"API error: ">> \o out.json[1].message.s)
            ELSE result = Err(<<"total_count not found in response">>)

\* The places of a token in a line.
PlacesOf(line, marker) == {i \in 1..Len(line) : line[i] = marker}

\* The least of a non-empty set of numbers.
Least(S) == CHOOSE i \in S : \A j \in S : i <= j

\* The first token after place j of the line that is no whitespace, <<>> when
\* there is none.
TokenAfter(line, j) ==
    LET after == {k \in (j + 1)..Len(line) : line[k] \notin Whitespace}
    IN  IF after = {} THEN None ELSE Some(line[Least(after)])

\* The lines of what the command wrote, stdout before stderr.
OutputLines(out) == Lines(out.stdout \o out.stderr, <<>>)

\* C18 as the specification words it: when some output line holds the marker
\* "Logged in to" followed by the marker "account", the probe resolves Ok of
\* the next whitespace-delimited token after the account marker; when no line
\* does, it resolves Err("Not logged in. Run the agent's login command.") after
\* an unsuccessful exit and Ok("Connected") after a successful one.
C18_ProbeResolution_SpecText ==
    (call # <<>> /\ call[1].fn = "check_gh_status" /\ call[1].out.spawned) =>
        LET out == call[1].out
            result == call[1].result
            lines == OutputLines(out)
            Named(line) ==
                {j \in PlacesOf(line, "account") :
                    \E i \in PlacesOf(line, "Logged in to") : i < j}
            hits == {k \in 1..Len(lines) : Named(lines[k]) # {}}
        IN  IF hits # {}
            THEN \E k \in hits : \E j \in Named(lines[k]) :
                    /\ TokenAfter(lines[k], j) # None
                    /\ result = OkS(TokenAfter(lines[k], j))
            ELSE IF ~out.success
            THEN result = ErrS(<<"Not logged in. Run the agent's login command.">>)
            ELSE result = OkS(<<"Connected">>)

\* C18: the lines that count are those holding the marker "Logged in to" and,
\* anywhere, "account" with a blank after it.  When there is such a line the
\* probe resolves Ok of the first whitespace-delimited token after the first
\* "account " of the first such line, Ok("unknown") when no token follows;
\* when there is none it resolves Err("Not logged in. Run: gh auth login")
\* after an unsuccessful exit and Ok("Connected") after a successful one.
C18_ProbeResolution ==
    (call # <<>> /\ call[1].fn = "check_gh_status" /\ call[1].out.spawned) =>
        LET out == call[1].out
            result == call[1].result
            lines == OutputLines(out)
            Named(line) ==
                {j \in PlacesOf(line, "account") : j < Len(line) /\ line[j + 1] = " "}
            hits == {k \in 1..Len(lines) :
                        PlacesOf(lines[k], "Logged in to") # {} /\ Named(lines[k]) # {}}
        IN  IF hits # {}
            THEN LET line == lines[Least(hits)]
                     name == TokenAfter(line, Least(Named(line)))
                 IN  result = OkS(IF name = None THEN <<"unknown">> ELSE name)
            ELSE IF ~out.success
            THEN result = ErrS(<<"Not logged in. Run: gh auth login">>)
            ELSE result = OkS(<<"Connected">>)

\* The command failed, yet one of two lines it wrote names the account, after
\* a line that does not.
C18_Witness ==
    /\ call # <<>>
    /\ call[1].fn = "check_gh_status"
    /\ ~call[1].out.success
    /\ Len(OutputLines(call[1].out)) = 2
    /\ call[1].result = OkS(<<"octocat">>)
    /\ ~Contains(OutputLines(call[1].out)[1], "Logged in to")

\* No count and no error: nothing has been fetched yet.
Loading == pr_count = None /\ fetch_error = None

\* C19: the status starts as (None, None); a step in which update receives a
\* PRCountFetched leaves it other than (None, None); no step, whatever the
\* message, brings it back to (None, None); and pr_count, once Some, stays
\* Some.
C19_LoadingLeftForGood ==
    /\ Loading
    /\ [][/\ Delivers("PRCountFetched") => ~Loading'
          /\ ~Loading => ~Loading'
          /\ pr_count # None => pr_count' # None]_vars

\* A count was fetched, then the auth method, the credential and the interval
\* were changed, and the fetch that followed failed: the count is still there
\* beside the error.
C19_Witness ==
    /\ pr_count # None
    /\ fetch_error # None
    /\ config.auth_method = "Pat"
    /\ config.github_pat # ""
    /\ config.poll_interval_secs = 30
    /\ last_outcome # None
    /\ ~last_outcome[1].ok

\* C20: in every step in which the runtime starts an instance of the gh status
\* checker (one under an id no live instance had), gh_status is None once the
\* step is done.
C20_ProbeStartsWithStatusNone ==
    [][\A r \in probes' :
          (\A q \in probes : q.id # r.id) => gh_status' = None]_vars

\* The identities the poller has in FairSpecRestart.
Identities ==
    {PollId(Config(a, p, i)) :
        a \in AuthMethod, p \in Pats, i \in {POLL_VALUES[1], POLL_VALUES[2]}}

\* update receives a PRCountFetched that the instance with this id produced.
DeliversFrom(id) ==
    /\ Delivers("PRCountFetched")
    /\ Head(inbox).src = id

\* C21: an instance of the PR poller that the runtime starts is at its fetch,
\* not at its sleep; and if from some point on the identity (auth_method,
\* github_pat, poll_interval_secs) stays what it is, then outcomes fetched
\* with that identity are received by update again and again, and from some
\* point on every outcome update receives was fetched with it, so that the
\* status is that of the current identity's latest outcome.
C21_RestartedLoopDelivers ==
    /\ [][\A r \in pollers' :
             (\A p \in pollers : p.id # r.id) => r.pc = "fetch"]_vars
    /\ \A id \in Identities :
          <>[](phase = "running" /\ PollId(config) = id) =>
              /\ []<><<DeliversFrom(id)>>_vars
              /\ <>[][Delivers("PRCountFetched") => Head(inbox).src = id]_vars

\* The auth method, the credential and the interval have all been changed, an
\* outcome of an earlier identity was received, and the first outcome of the
\* instance started last is waiting to be received.
C21_Witness ==
    /\ config = Config("Pat", "ghp_a", 30)
    /\ last_outcome # None
    /\ inbox # <<>>
    /\ Head(inbox).kind = "PRCountFetched"
    /\ Head(inbox).src = PollId(config)
    /\ \E p \in pollers : p.id = PollId(config) /\ p.pc = "sleep"

\* C22: whenever curl exits with success and a JSON body whose total_count is
\* a non-negative integer n, values of 2^32 and above included, fetch_via_pat
\* gives Ok(c) where c, read as a 64-bit value, is n itself: the count is
\* never n reduced modulo 2^32.
C22_NoWrapAround ==
    \A n \in TotalCounts :
        ( /\ call # <<>>
          /\ call[1].fn = "fetch_via_pat"
          /\ call[1].out.spawned
          /\ call[1].out.success
          /\ call[1].out.json # None
          /\ call[1].out.json[1].total_count = JNumber(n) ) =>
            /\ call[1].result.ok
            /\ U64(0, 0, call[1].result.count \div Word,
                   call[1].result.count % Word) = n

====
